---- MODULE Spec2Model ----
(***************************************************************************)
(* The chat-session ledger of the Prepare-Up dashboard                     *)
(* (src/frontend/app/dashboard/page.tsx, component DashboardPage).         *)
(*                                                                         *)
(* The component runs on the browser's event loop: every event handler,    *)
(* and every continuation of an async handler after its await, runs to     *)
(* completion before the next one starts, and React applies the state      *)
(* updates it queued (in the order they were queued) before any other      *)
(* handler runs.  One action of this module is therefore one handler, or   *)
(* one continuation, together with the state updaters it queued.           *)
(*                                                                         *)
(* An async handler keeps, across its await, the closure of the render in  *)
(* which it was created: the values of the useState variables of that      *)
(* render.  The calls in flight carry that closure (Closure below).  The   *)
(* ref activeChatIdRef and the argument of an updater function are not     *)
(* part of a closure: they are read when the updater runs.                 *)
(***************************************************************************)
EXTENDS Integers, Sequences, FiniteSets, TLC

(***************************************************************************)
(* Bounds of the model.                                                    *)
(***************************************************************************)
\* crypto.randomUUID() is called at most MaxUuid times (sessions, messages).
MaxUuid == 6
\* Date.now() takes the values 0 .. MaxClock.
MaxClock == 1
\* The last minute the interval of nowTs fires in.
MaxNow == 3
\* Milliseconds in a minute (lines 137, 153).
MsPerMinute == 60000

\* The longest transcript a thread is opened with.
MaxTranscript == 14

\* .slice(-12): the number of messages sent as history
HistoryLimit == 12

(***************************************************************************)
(* Values.                                                                 *)
(***************************************************************************)
\* null and undefined (the code tells them apart nowhere: ??, ||, !).
Null == "null"

\* A UUID: the n-th value crypto.randomUUID() returns; all are distinct.
randomUUID(n) == "u" \o ToString(n)

\* JavaScript truthiness of a string | null: non-null and non-empty.
Truthy(s) == s # Null /\ s # ""

Min(a, b) == IF a <= b THEN a ELSE b
Max(a, b) == IF a >= b THEN a ELSE b

\* The local files the user can pick; a file is known by the key
\* name:size:lastModified that addFiles computes, here its name.
FileNames == {"a.pdf", "b.pdf"}

OutputTypes == {"podcast", "study_guide", "narrative", "flash_card"}
\* The output types the user picks in the model.
PickedOutputs == {"podcast"}

\* outputLabel(k)
outputLabel(k) ==
  CASE k = "study_guide" -> "Study Guide"
    [] k = "flash_card" -> "Flash Card"
    [] k = "podcast" -> "Podcast"
    [] k = "narrative" -> "Narrative"

VARIABLES
  \* useState of DashboardPage
  files,            \* LocalFile[]: the keys of the locally selected files
  view,             \* "upload" | "chat"
  uploading,        \* an upload is running
  generating,       \* a generate or chat request is running
  uploaded,         \* UploadedFile[] shown in the view
  combinedTextLen,
  sessionId,        \* backend session id shown in the view, or Null
  messages,         \* ChatMessage[] shown in the view
  chatInput,
  selectedOutput,   \* OutputType or Null
  recentQuery,
  recentVisible,
  chatSessions,     \* the ledger: ChatSession[], newest created first
  activeChatId,     \* activeChatIdRef.current (and the state set with it)
  \* useRef of the auto-upload effect
  autoSyncLock,
  lastAutoUploadKey,
  \* the environment
  clock,            \* the last value Date.now() returned
  uuid,             \* how many UUIDs crypto.randomUUID() has returned
  uploadCall,       \* the uploadToBackend call awaiting fetch, or Null
  genCall,          \* the onSelectOutput / onSendChat call awaiting fetch, or Null
  lockTimer,        \* the 250 ms timer that releases autoSyncLock is armed
  \* the recents list
  nowTs,            \* the value of Date.now() the interval stored last
  threadRecents,    \* the value useMemo holds: {id, title, sub} in recency order
  \* history, for stating the properties
  last,             \* the handler that ran last, and its input
  pre               \* the ledger, the pointer and the view before it ran

viewVars == <<files, view, uploading, generating, uploaded, combinedTextLen,
              sessionId, messages, chatInput, selectedOutput>>
recentVars == <<recentQuery, recentVisible>>
ledgerVars == <<chatSessions, activeChatId>>
autoVars == <<autoSyncLock, lastAutoUploadKey, lockTimer>>
envVars == <<clock, uuid, uploadCall, genCall>>
memoVars == <<nowTs, threadRecents>>
histVars == <<last, pre>>
vars == <<viewVars, recentVars, ledgerVars, autoVars, envVars, memoVars, histVars>>

(***************************************************************************)
(* The closure of a render: what a handler created in that render sees.    *)
(***************************************************************************)
Closure ==
  [files |-> files, view |-> view, uploaded |-> uploaded,
   combinedTextLen |-> combinedTextLen, sessionId |-> sessionId,
   messages |-> messages, selectedOutput |-> selectedOutput]

\* The ledger and the pointer before a handler runs (history).
Pre == [chatSessions |-> chatSessions, activeChatId |-> activeChatId]

\* The same with the view, for the handlers that may leave the view as it is.
PreView ==
  [chatSessions |-> chatSessions, activeChatId |-> activeChatId,
   view |-> view, files |-> files, uploaded |-> uploaded,
   combinedTextLen |-> combinedTextLen, sessionId |-> sessionId,
   messages |-> messages, selectedOutput |-> selectedOutput,
   chatInput |-> chatInput, recentQuery |-> recentQuery,
   recentVisible |-> recentVisible, generating |-> generating,
   uploading |-> uploading, uploadCall |-> uploadCall, genCall |-> genCall]

(***************************************************************************)
(* upsertActiveSession (lines 228-278).                                    *)
(*                                                                         *)
(* A patch is a Partial<ChatSession>: a record holding only the fields the *)
(* caller passed.  The callers of the component pass title,                *)
(* backendSessionId, uploaded, combinedTextLen, selectedOutput and         *)
(* messages, never id or updatedAt.                                        *)
(***************************************************************************)
\* patch.f ?? fallback, for a field that holds an array or a number
PatchOr(patch, f, fallback) ==
  IF f \in DOMAIN patch THEN patch[f] ELSE fallback

\* patch.f ?? fallback, for a field that holds a string or null
PatchOrNullish(patch, f, fallback) ==
  IF f \in DOMAIN patch /\ patch[f] # Null THEN patch[f] ELSE fallback

\* const hasCurrent = !!currentId && prev.some((s) => s.id === currentId)
hasCurrent(prev, currentId) ==
  Truthy(currentId) /\ \E i \in DOMAIN prev : prev[i].id = currentId

\* hasRealUpload || hasRealMessages
hasRealContent(nextUploaded, nextBackendSid, nextMessages) ==
  \/ Len(nextUploaded) > 0 \/ Truthy(nextBackendSid)
  \/ Len(nextMessages) > 0

\* A variant of baseTitle that skips the name of the first uploaded file.
baseTitleNoFile(patch, nextUploaded) ==
  IF "title" \in DOMAIN patch /\ Truthy(patch.title) THEN patch.title ELSE "New chat"

\* const baseTitle = patch.title || (nextUploaded[0]?.name ? ... : "New chat")
baseTitle(patch, nextUploaded) ==
  IF "title" \in DOMAIN patch /\ Truthy(patch.title) THEN patch.title
  ELSE IF Len(nextUploaded) > 0 /\ Truthy(nextUploaded[1].name)
       THEN nextUploaded[1].name
       ELSE "New chat"

\* Faulty variant of created: the id is taken from the title, so two threads
\* on the same file share an id.
createdTitleId(patch, cl, now, newId) ==
  LET nextUploaded == PatchOr(patch, "uploaded", cl.uploaded)
  IN [id |-> baseTitle(patch, nextUploaded),
      title |-> baseTitle(patch, nextUploaded),
      updatedAt |-> now,
      backendSessionId |-> PatchOrNullish(patch, "backendSessionId", cl.sessionId),
      uploaded |-> nextUploaded,
      combinedTextLen |-> PatchOr(patch, "combinedTextLen", cl.combinedTextLen),
      selectedOutput |-> PatchOrNullish(patch, "selectedOutput", cl.selectedOutput),
      messages |-> PatchOr(patch, "messages", cl.messages)]

\* const created: ChatSession = { ... }; cl is the closure of the caller
created(patch, cl, now, newId) ==
  LET nextUploaded == PatchOr(patch, "uploaded", cl.uploaded)
      nextBackendSid == PatchOrNullish(patch, "backendSessionId", cl.sessionId)
      nextMessages == PatchOr(patch, "messages", cl.messages)
  IN [id |-> newId,
      title |-> baseTitle(patch, nextUploaded),
      updatedAt |-> now,
      backendSessionId |-> nextBackendSid,
      uploaded |-> nextUploaded,
      combinedTextLen |-> PatchOr(patch, "combinedTextLen", cl.combinedTextLen),
      selectedOutput |-> PatchOrNullish(patch, "selectedOutput", cl.selectedOutput),
      messages |-> nextMessages]

\* Faulty variant of patched: a plain spread { ...s, ...patch, updatedAt: now },
\* without the ?? fallbacks of lines 268-275.
patchedSpread(s, patch, now) ==
  [id |-> s.id,
   title |-> PatchOr(patch, "title", s.title),
   updatedAt |-> now,
   backendSessionId |-> PatchOr(patch, "backendSessionId", s.backendSessionId),
   uploaded |-> PatchOr(patch, "uploaded", s.uploaded),
   combinedTextLen |-> PatchOr(patch, "combinedTextLen", s.combinedTextLen),
   selectedOutput |-> PatchOr(patch, "selectedOutput", s.selectedOutput),
   messages |-> PatchOr(patch, "messages", s.messages)]

\* { ...s, ...patch, updatedAt: now, backendSessionId: ... ?? ..., ... }
patched(s, patch, now) ==
  [id |-> s.id,
   title |-> PatchOr(patch, "title", s.title),
   updatedAt |-> now,
   backendSessionId |-> PatchOrNullish(patch, "backendSessionId", s.backendSessionId),
   uploaded |-> PatchOr(patch, "uploaded", s.uploaded),
   combinedTextLen |-> PatchOr(patch, "combinedTextLen", s.combinedTextLen),
   selectedOutput |-> PatchOrNullish(patch, "selectedOutput", s.selectedOutput),
   messages |-> PatchOr(patch, "messages", s.messages)]

\* Faulty variants of prepend: [...prev, created], and a created session that
\* takes the place of the head.
prependLast(c, prev) == prev \o <<c>>
prependOverHead(c, prev) == IF prev = <<>> THEN <<c>> ELSE <<c>> \o Tail(prev)

\* return [created, ...prev]
prepend(c, prev) == <<c>> \o prev

\* Faulty variants of patchExisting: a map without the id test, and one that
\* patches the head of the ledger.
patchEvery(prev, currentId, patch, now) ==
  [i \in DOMAIN prev |-> patched(prev[i], patch, now)]
patchHead(prev, currentId, patch, now) ==
  [i \in DOMAIN prev |-> IF i = 1 THEN patched(prev[i], patch, now) ELSE prev[i]]

\* return prev.map((s) => s.id === currentId ? {...} : s)
patchExisting(prev, currentId, patch, now) ==
  [i \in DOMAIN prev |->
     IF prev[i].id = currentId THEN patched(prev[i], patch, now) ELSE prev[i]]

\* The ledger an updater of setChatSessions works on: prev, the ref, and the
\* UUID source.  upsertActiveSession maps it to the ledger after the call.
\* fresh: the updaters returned a new array (useMemo compares by reference).
Ledger ==
  [chatSessions |-> chatSessions, activeChatId |-> activeChatId, uuid |-> uuid,
   fresh |-> FALSE]

upsertActiveSession(patch, cl, L, now) ==
  LET prev == L.chatSessions
      currentId == L.activeChatId
      nextUploaded == PatchOr(patch, "uploaded", cl.uploaded)
      nextBackendSid == PatchOrNullish(patch, "backendSessionId", cl.sessionId)
      nextMessages == PatchOr(patch, "messages", cl.messages)
      newId == randomUUID(L.uuid + 1)
  IN IF ~hasCurrent(prev, currentId)
     THEN IF ~hasRealContent(nextUploaded, nextBackendSid, nextMessages)
          THEN L
          ELSE [chatSessions |-> prepend(created(patch, cl, now, newId), prev),
                activeChatId |-> newId,        \* setActiveChatIdSync(newId)
                uuid |-> L.uuid + 1,
                fresh |-> TRUE]
     ELSE [L EXCEPT !.chatSessions = patchExisting(prev, currentId, patch, now),
                    !.fresh = TRUE]

\* Date.now(), in units of MsPerMinute: a reading is the value the last
\* reading returned (the same millisecond) or, up to MaxClock, a minute later.
Nows == clock .. Max(clock, Min(clock + 1, MaxClock))

(***************************************************************************)
(* threadRecents (lines 150-167): useMemo over [chatSessions].              *)
(***************************************************************************)
\* toRelativeSub, with nowTs passed in (nowTs is not null after mount)
toRelativeSub(ts, now) ==
  LET diffMs == (now - ts) * MsPerMinute
      diffMin == diffMs \div MsPerMinute
      diffHr == diffMin \div 60
      diffDay == diffHr \div 24
  IN IF diffMin < 2 THEN "Just now"
     ELSE IF diffMin < 60 THEN ToString(diffMin) \o " min ago"
     ELSE IF diffHr < 24 THEN ToString(diffHr) \o " hr ago"
     ELSE IF diffDay = 1 THEN "Yesterday"
     ELSE IF diffDay < 14 THEN ToString(diffDay) \o " days ago"
     ELSE "Older"

\* Faulty variant of insertByUpdatedAt: an unstable sort, where an element goes
\* in front of the elements as old as it.
RECURSIVE insertUnstable(_, _)
insertUnstable(x, sorted) ==
  IF sorted = <<>> THEN <<x>>
  ELSE IF Head(sorted).updatedAt - x.updatedAt > 0
       THEN <<Head(sorted)>> \o insertUnstable(x, Tail(sorted))
       ELSE <<x>> \o sorted

\* Array.prototype.sort is stable: with the comparator b.updatedAt - a.updatedAt
\* an element goes behind every element that is not older than it.
RECURSIVE insertByUpdatedAt(_, _)
insertByUpdatedAt(x, sorted) ==
  IF sorted = <<>> THEN <<x>>
  ELSE IF Head(sorted).updatedAt - x.updatedAt >= 0
       THEN <<Head(sorted)>> \o insertByUpdatedAt(x, Tail(sorted))
       ELSE <<x>> \o sorted

RECURSIVE sortInto(_, _)
sortInto(sessions, sorted) ==
  IF sessions = <<>> THEN sorted
  ELSE sortInto(Tail(sessions), insertByUpdatedAt(Head(sessions), sorted))

\* const sorted = [...chatSessions].sort((a, b) => b.updatedAt - a.updatedAt)
sorted(sessions) == sortInto(sessions, <<>>)

\* sorted.map((s) => ({ id, title, sub: toRelativeSub(s.updatedAt) }))
recentsOf(sessions, now) ==
  LET srt == sorted(sessions)
  IN [i \in DOMAIN srt |->
        [id |-> srt[i].id, title |-> srt[i].title, sub |-> toRelativeSub(srt[i].updatedAt, now)]]

\* The memo after a render: recomputed when chatSessions is a new array.
memoized(L) == IF L.fresh THEN recentsOf(L.chatSessions, nowTs) ELSE threadRecents

(***************************************************************************)
(* Upload-response normalisation (uploadToBackend, lines 744-781).         *)
(* A response is the parsed JSON body: a record of the keys it carries.    *)
(***************************************************************************)
Has(r, k) == k \in DOMAIN r

\* const sid = typeof data.session_id === "string" ? data.session_id : null
sidOf(data) == IF Has(data, "session_id") THEN data.session_id ELSE Null

normalizeFile(f) ==
  [name |-> IF Has(f, "name") /\ Truthy(f.name) THEN f.name
            ELSE IF Has(f, "filename") /\ Truthy(f.filename) THEN f.filename
            ELSE "unknown",
   status |-> IF Has(f, "status") /\ Truthy(f.status) THEN f.status ELSE "extracted",
   textLen |-> IF Has(f, "text_len") THEN f.text_len
               ELSE IF Has(f, "textLen") THEN f.textLen
               ELSE IF Has(f, "text") THEN Len(f.text)
               ELSE 0]

\* (data.files || []).map(...); the id of an UploadedFile (a fresh UUID that
\* only keys the rendered list) is left out.
normalized(data) ==
  IF Has(data, "files")
  THEN [i \in DOMAIN data.files |-> normalizeFile(data.files[i])]
  ELSE <<>>

\* A variant that prefers the preview to the combined text.
combinedLenPreviewFirst(data) ==
  IF Has(data, "combined_len") THEN data.combined_len
  ELSE IF Has(data, "combinedLen") THEN data.combinedLen
  ELSE IF Has(data, "preview_len") THEN data.preview_len
  ELSE IF Has(data, "preview") THEN Len(data.preview)
  ELSE IF Has(data, "combined_text") THEN Len(data.combined_text)
  ELSE 0

\* Lines 769-781.  A body carries a key only with a value of the type the
\* code tests for (a number for the *_len keys, a string for the texts).
combinedLen(data) ==
  IF Has(data, "combined_len") THEN data.combined_len
  ELSE IF Has(data, "combinedLen") THEN data.combinedLen
  ELSE IF Has(data, "combined_text") THEN Len(data.combined_text)
  ELSE IF Has(data, "preview_len") THEN data.preview_len
  ELSE IF Has(data, "preview") THEN Len(data.preview)
  ELSE 0

\* Bodies that differ in the length and text keys they carry; each key has
\* a length of its own, and BodyZero carries a combined_len of 0.
BodyBare == [session_id |-> "s1", files |-> <<[name |-> "a.pdf", status |-> "extracted"]>>]
BodyPreviewText == [session_id |-> "s1", files |-> <<[name |-> "a.pdf"]>>, preview |-> "z"]
BodyPreviewLen ==
  [session_id |-> "s1", files |-> <<[name |-> "a.pdf"]>>, preview_len |-> 2, preview |-> "z"]
BodyText ==
  [session_id |-> "s1", files |-> <<[name |-> "a.pdf"]>>,
   combined_text |-> "abc", preview_len |-> 2, preview |-> "z"]
BodyCamel ==
  [session_id |-> "s1", files |-> <<[name |-> "a.pdf"]>>,
   combinedLen |-> 4, combined_text |-> "abc", preview_len |-> 2, preview |-> "z"]
BodyLen ==
  [session_id |-> "s1", files |-> <<[name |-> "a.pdf"]>>,
   combined_len |-> 5, combinedLen |-> 4, combined_text |-> "abc",
   preview_len |-> 2, preview |-> "z"]
BodyZero ==
  [session_id |-> "s1", files |-> <<[name |-> "a.pdf"]>>,
   combined_len |-> 0, combined_text |-> "abc", preview |-> "z"]
LengthBodies ==
  {BodyBare, BodyPreviewText, BodyPreviewLen, BodyText, BodyCamel, BodyLen, BodyZero}

\* The bodies the upload endpoint answers with: the new shape, the new shape
\* with two files and a preview, the old shape (no session id), an empty one.
RespNew == [session_id |-> "s1", files |-> <<[name |-> "a.pdf", status |-> "extracted"]>>]
RespPreview ==
  [session_id |-> "s2",
   files |-> <<[name |-> "a.pdf", text_len |-> 1], [filename |-> "b.pdf", status |-> "needs_ocr"]>>,
   preview |-> "hi"]
RespOld ==
  [files |-> <<[name |-> "b.pdf", text |-> "abc"]>>, combined_text |-> "abc", combined_len |-> 3]
RespEmpty == [ttl_seconds |-> 60]

UploadResponses == {RespNew, RespOld, RespEmpty}

(***************************************************************************)
(* Messages.                                                               *)
(***************************************************************************)
\* A ChatMessage; an optional title or meta that is absent is Null, and an
\* absent loading flag is FALSE.
Msg(id, role, title, meta, text, loading) ==
  [id |-> id, role |-> role, title |-> title, meta |-> meta, text |-> text,
   loading |-> loading]

\* `Sources: ${normalized.length || 0} file(s) - ${channelsCount} channel`
SourcesMeta(n) == "Sources: " \o ToString(n) \o " file(s) - 1 channel"

\* `I uploaded ${normalized.length || 0} file(s). Can you help me?`
UploadedText(n) == "I uploaded " \o ToString(n) \o " file(s). Can you help me?"

PickText == "Pick an output above to generate first."

\* The two messages the first upload of a thread puts in the transcript.
initialMessages(n, id1, id2) ==
  << Msg(id1, "user", "Hello", Null, UploadedText(n), FALSE),
     Msg(id2, "ai", "Welcome", SourcesMeta(n), PickText, FALSE) >>

\* prev.map((m) => m.role === "ai" && m.title === "Welcome" ? {...m, meta} : m)
refreshWelcome(prev, n) ==
  [i \in DOMAIN prev |->
     IF prev[i].role = "ai" /\ prev[i].title = "Welcome"
     THEN [prev[i] EXCEPT !.meta = SourcesMeta(n)]
     ELSE prev[i]]

\* prev.map((m) => m.id === aiLoadingId ? {...m, text, loading: false} : m)
resolveLoading(prev, aiLoadingId, text) ==
  [i \in DOMAIN prev |->
     IF prev[i].id = aiLoadingId
     THEN [prev[i] EXCEPT !.text = text, !.loading = FALSE]
     ELSE prev[i]]

(***************************************************************************)
(* The initial state: the first render of DashboardPage.                   *)
(***************************************************************************)
NoCall == [active |-> FALSE]

Init ==
  /\ files = <<>>
  /\ view = "upload"
  /\ uploading = FALSE
  /\ generating = FALSE
  /\ uploaded = <<>>
  /\ combinedTextLen = 0
  /\ sessionId = Null
  /\ messages = <<>>
  /\ chatInput = ""
  /\ selectedOutput = Null
  /\ recentQuery = ""
  /\ recentVisible = 12
  /\ chatSessions = <<>>
  /\ activeChatId = Null
  /\ autoSyncLock = FALSE
  /\ lastAutoUploadKey = <<>>
  /\ clock = 0
  /\ uuid = 0
  /\ uploadCall = NoCall
  /\ genCall = NoCall
  /\ lockTimer = FALSE
  /\ nowTs = 0
  /\ threadRecents = <<>>
  /\ last = [op |-> "init"]
  /\ pre = Pre

(***************************************************************************)
(* The auto-upload effect (lines 839-866).  It runs after a render in      *)
(* which files or view changed, with the closure cl2 of that render; when  *)
(* it passes its guards it takes the lock and calls uploadToBackend, which *)
(* sets uploading and awaits the fetch.  The key of the file list is the   *)
(* list of the files' keys.                                                *)
(***************************************************************************)
pendingUploadCount(files2, uploaded2) == Max(0, Len(files2) - Len(uploaded2))

\* A variant of autoUploadStarts without the test of uploading.
autoUploadWhileUploading(cl2, uploading2) ==
  /\ cl2.view = "chat"
  /\ Len(cl2.files) > 0
  /\ pendingUploadCount(cl2.files, cl2.uploaded) > 0
  /\ ~autoSyncLock
  /\ lastAutoUploadKey # cl2.files

autoUploadStarts(cl2, uploading2) ==
  /\ cl2.view = "chat"
  /\ Len(cl2.files) > 0
  /\ ~uploading2
  /\ pendingUploadCount(cl2.files, cl2.uploaded) > 0
  /\ ~autoSyncLock
  /\ lastAutoUploadKey # cl2.files

\* The render that follows a handler and the effect after it.  uploading2
\* and uploadCall2 are the values the handler left.
AfterRender(cl2, uploading2, uploadCall2) ==
  IF (cl2.files # files \/ cl2.view # view) /\ autoUploadStarts(cl2, uploading2)
  THEN /\ autoSyncLock' = TRUE
       /\ lastAutoUploadKey' = cl2.files
       /\ uploading' = TRUE
       /\ uploadCall' = [active |-> TRUE, auto |-> TRUE, cl |-> cl2]
  ELSE /\ uploading' = uploading2
       /\ uploadCall' = uploadCall2
       /\ UNCHANGED <<autoSyncLock, lastAutoUploadKey>>

\* The closure of the next render when a handler changed only files and view.
ClosureWith(files2, view2) == [Closure EXCEPT !.files = files2, !.view = view2]

(***************************************************************************)
(* Local files: addFiles, removeFile (lines 694-716).                      *)
(***************************************************************************)
\* file.size of the files the user can drop; isAllowed keeps size > 0.
FileSize(name) == IF name = "empty.txt" THEN 0 ELSE 1
isAllowed(name) == FileSize(name) > 0

\* The lists of files one drop or one file dialog delivers.
Incoming == { <<"empty.txt", "a.pdf">> }

\* next: the allowed incoming files whose key is not among the existing ones
addFilesNext(incoming, existing) ==
  SelectSeq(incoming, LAMBDA f : isAllowed(f) /\ \A i \in DOMAIN existing : existing[i] # f)

\* onDrop / onInputChange -> addFiles(incoming)
AddFiles(incoming) ==
  LET next == addFilesNext(incoming, files)
      files2 == IF Len(next) > 0 THEN files \o next ELSE files
  IN /\ files' = files2
     /\ AfterRender(ClosureWith(files2, view), uploading, uploadCall)
     /\ last' = [op |-> "addFiles", incoming |-> incoming, added |-> next]
     /\ pre' = Pre
     /\ UNCHANGED <<view, generating, uploaded, combinedTextLen, sessionId, messages,
                    chatInput, selectedOutput, recentVars, ledgerVars, lockTimer,
                    clock, uuid, genCall, memoVars>>

\* The remove button of a file row; the rows are rendered in the upload view.
RemoveFile(i) ==
  /\ view = "upload"
  /\ i \in DOMAIN files
  /\ files' = SubSeq(files, 1, i - 1) \o SubSeq(files, i + 1, Len(files))
  /\ last' = [op |-> "removeFile", index |-> i]
  /\ pre' = Pre
  /\ UNCHANGED <<view, uploading, generating, uploaded, combinedTextLen, sessionId,
                 messages, chatInput, selectedOutput, recentVars, ledgerVars, autoVars,
                 envVars>>
  /\ UNCHANGED memoVars

(***************************************************************************)
(* startNewChat (lines 183-201).  The "+ New chat" button is rendered when *)
(* the ledger is not empty (line 1891).                                    *)
(***************************************************************************)
\* Faulty variant of blank: the search box keeps its query.
blankKeepingQuery ==
  [files |-> <<>>, view |-> "upload", uploaded |-> <<>>, combinedTextLen |-> 0,
   sessionId |-> Null, messages |-> <<>>, selectedOutput |-> Null,
   chatInput |-> "", recentQuery |-> recentQuery, recentVisible |-> 12]

\* The values startNewChat sets: the view of a chat that has not begun.
blank ==
  [files |-> <<>>, view |-> "upload", uploaded |-> <<>>, combinedTextLen |-> 0,
   sessionId |-> Null, messages |-> <<>>, selectedOutput |-> Null,
   chatInput |-> "", recentQuery |-> "", recentVisible |-> 12]

\* Every value startNewChat resets differs from the value it is reset to
\* (history: the call has something to reset).
allSet ==
  /\ files # <<>> /\ view # "upload" /\ uploaded # <<>> /\ combinedTextLen # 0
  /\ sessionId # Null /\ messages # <<>> /\ selectedOutput # Null
  /\ chatInput # "" /\ recentQuery # "" /\ recentVisible # 12
  /\ activeChatId # Null

StartNewChat ==
  /\ Len(chatSessions) > 0
  /\ activeChatId' = Null
  /\ view' = blank.view
  /\ files' = blank.files
  /\ uploaded' = blank.uploaded
  /\ combinedTextLen' = blank.combinedTextLen
  /\ sessionId' = blank.sessionId
  /\ messages' = blank.messages
  /\ chatInput' = blank.chatInput
  /\ selectedOutput' = blank.selectedOutput
  /\ recentQuery' = blank.recentQuery
  /\ recentVisible' = blank.recentVisible
  /\ AfterRender([files |-> blank.files, view |-> blank.view, uploaded |-> blank.uploaded,
                  combinedTextLen |-> blank.combinedTextLen, sessionId |-> blank.sessionId,
                  messages |-> blank.messages, selectedOutput |-> blank.selectedOutput],
                 uploading, uploadCall)
  /\ last' = [op |-> "startNewChat", allSet |-> allSet]
  /\ pre' = Pre
  /\ UNCHANGED <<generating, chatSessions, lockTimer, clock, uuid, genCall>>
  /\ UNCHANGED memoVars

(***************************************************************************)
(* openChatThread (lines 203-226).                                         *)
(***************************************************************************)
\* Faulty variants of find: one that falls back to the head of the ledger when
\* no session has the id, and one that returns the head when some session has it.
findOrHead(sessions, id) ==
  LET hits == {i \in DOMAIN sessions : sessions[i].id = id}
  IN IF hits = {} THEN (IF sessions = <<>> THEN {} ELSE {sessions[1]})
     ELSE {sessions[CHOOSE i \in hits : \A j \in hits : i <= j]}
findHead(sessions, id) ==
  IF \E i \in DOMAIN sessions : sessions[i].id = id THEN {sessions[1]} ELSE {}

\* chatSessions.find((x) => x.id === id): the first match, as a set of 0 or 1
find(sessions, id) ==
  LET hits == {i \in DOMAIN sessions : sessions[i].id = id}
  IN IF hits = {} THEN {}
     ELSE {sessions[CHOOSE i \in hits : \A j \in hits : i <= j]}

\* An id no session ever gets (randomUUID numbers from 1).
AbsentId == randomUUID(0)

\* The ids openChatThread is called with: those of the ledger, and an absent one.
OpenIds == {chatSessions[i].id : i \in DOMAIN chatSessions} \cup {AbsentId}

OpenChatThread(id) ==
  /\ id \in OpenIds
  /\ last' = [op |-> "openChatThread", id |-> id]
  /\ pre' = IF \E i \in DOMAIN chatSessions : chatSessions[i].id = id THEN Pre ELSE PreView
  /\ IF find(chatSessions, id) = {}
     THEN UNCHANGED <<viewVars, recentVars, ledgerVars, autoVars, envVars>>
     ELSE LET s == CHOOSE x \in find(chatSessions, id) : TRUE
          IN /\ activeChatId' = s.id
             /\ view' = "chat"
             /\ uploaded' = s.uploaded
             /\ combinedTextLen' = s.combinedTextLen
             /\ sessionId' = s.backendSessionId
             /\ selectedOutput' = s.selectedOutput
             /\ messages' = s.messages
             /\ AfterRender([files |-> files, view |-> "chat", uploaded |-> s.uploaded,
                             combinedTextLen |-> s.combinedTextLen,
                             sessionId |-> s.backendSessionId, messages |-> s.messages,
                             selectedOutput |-> s.selectedOutput], uploading, uploadCall)
             /\ UNCHANGED <<files, generating, chatInput, recentVars, chatSessions,
                            lockTimer, clock, uuid, genCall>>
  /\ UNCHANGED memoVars

(***************************************************************************)
(* onSidebarSelect (lines 60-97).                                          *)
(***************************************************************************)
SidebarKeys == {"flash_cards", "podcast", "mock_test", "study_guide"}
\* The sidebar items the user clicks in the model.
ClickedKeys == {"flash_cards"}

sidebarOutput(key) ==
  CASE key = "flash_cards" -> "flash_card"
    [] key = "podcast" -> "podcast"
    [] key = "study_guide" -> "study_guide"

OnSidebarSelect(key) ==
  /\ key \in ClickedKeys
  /\ last' = [op |-> "onSidebarSelect", key |-> key]
  /\ pre' = Pre
  /\ IF ~Truthy(sessionId) /\ Len(uploaded) = 0
     THEN UNCHANGED <<viewVars, recentVars, ledgerVars, autoVars, envVars>>
     ELSE LET so2 == IF key = "mock_test" THEN selectedOutput ELSE sidebarOutput(key)
          IN /\ view' = "chat"
             /\ selectedOutput' = so2
             /\ AfterRender([Closure EXCEPT !.view = "chat", !.selectedOutput = so2],
                            uploading, uploadCall)
             /\ UNCHANGED <<files, generating, uploaded, combinedTextLen, sessionId,
                            messages, chatInput, recentVars, ledgerVars, lockTimer,
                            clock, uuid, genCall>>
  /\ UNCHANGED memoVars

(***************************************************************************)
(* uploadToBackend (lines 730-829), called by onContinue (lines 831-837)   *)
(* and by the auto-upload effect.  The call is in flight between its start *)
(* (setUploading(true), fetch) and the continuation after the await.       *)
(***************************************************************************)
\* The Continue button: rendered in the upload view, disabled unless canContinue.
OnContinue ==
  /\ view = "upload"
  /\ Len(files) > 0 /\ ~uploading          \* canContinue, and the guard of line 731
  /\ uploading' = TRUE
  /\ uploadCall' = [active |-> TRUE, auto |-> FALSE, cl |-> Closure]
  /\ last' = [op |-> "onContinue"]
  /\ pre' = Pre
  /\ UNCHANGED <<files, view, generating, uploaded, combinedTextLen, sessionId, messages,
                 chatInput, selectedOutput, recentVars, ledgerVars, autoVars, clock, uuid,
                 genCall>>
  /\ UNCHANGED memoVars

\* sid || sessionId, with the sessionId of the call's closure
sidOrSession(sid, cl) == IF Truthy(sid) THEN sid ELSE cl.sessionId

\* title: normalized[0]?.name ? normalized[0].name : "New chat"
uploadTitle(norm) == IF Len(norm) > 0 /\ Truthy(norm[1].name) THEN norm[1].name ELSE "New chat"

\* The patch of the first upload of a thread (lines 809-815).
firstUploadPatch(data, cl, msgs) ==
  [backendSessionId |-> sidOrSession(sidOf(data), cl),
   uploaded |-> normalized(data),
   combinedTextLen |-> combinedLen(data),
   messages |-> msgs,
   title |-> uploadTitle(normalized(data))]

\* The patch of an upload made from the chat view (line 788).
moreUploadPatch(data, cl) ==
  [backendSessionId |-> sidOrSession(sidOf(data), cl),
   uploaded |-> normalized(data),
   combinedTextLen |-> combinedLen(data)]

\* The fetch resolved with an ok response whose body is data.
UploadDone(data) ==
  /\ uploadCall.active
  /\ LET cl == uploadCall.cl
         norm == normalized(data)
         first == cl.view = "upload"
         msgs2 == IF first
                  THEN initialMessages(Len(norm), randomUUID(uuid + 1), randomUUID(uuid + 2))
                  ELSE refreshWelcome(messages, Len(norm))
         L1 == IF first THEN [Ledger EXCEPT !.uuid = uuid + 2] ELSE Ledger
         sid2 == IF Truthy(sidOf(data)) THEN sidOf(data) ELSE sessionId
         view2 == IF first THEN "chat" ELSE view
         so2 == IF first THEN Null ELSE selectedOutput
     IN /\ \E now \in Nows :
             LET L2 == upsertActiveSession(
                         IF first THEN firstUploadPatch(data, cl, msgs2)
                                  ELSE moreUploadPatch(data, cl),
                         cl, L1, now)
             IN /\ L2.uuid <= MaxUuid
                /\ chatSessions' = L2.chatSessions
                /\ activeChatId' = L2.activeChatId
                /\ uuid' = L2.uuid
                /\ clock' = now
                /\ threadRecents' = memoized(L2)
        /\ nowTs' = nowTs
        /\ sessionId' = sid2
        /\ uploaded' = norm
        /\ combinedTextLen' = combinedLen(data)
        /\ view' = view2
        /\ messages' = msgs2
        /\ selectedOutput' = so2
        /\ lockTimer' = (lockTimer \/ uploadCall.auto)
        /\ AfterRender([files |-> files, view |-> view2, uploaded |-> norm,
                        combinedTextLen |-> combinedLen(data), sessionId |-> sid2,
                        messages |-> msgs2, selectedOutput |-> so2], FALSE, NoCall)
        /\ last' = [op |-> "uploadDone", data |-> data, cl |-> cl,
                     patches |-> << IF first THEN firstUploadPatch(data, cl, msgs2)
                                             ELSE moreUploadPatch(data, cl) >>]
        /\ pre' = Pre
        /\ UNCHANGED <<files, generating, chatInput, recentVars, genCall>>

\* The fetch threw, or the response was not ok: only the finally block runs;
\* onContinue alerts, the effect ignores the error.
UploadFail ==
  /\ uploadCall.active
  /\ uploading' = FALSE
  /\ uploadCall' = NoCall
  /\ lockTimer' = (lockTimer \/ uploadCall.auto)
  /\ last' = [op |-> "uploadFail", cl |-> uploadCall.cl]
  /\ pre' = Pre
  /\ UNCHANGED <<files, view, generating, uploaded, combinedTextLen, sessionId, messages,
                 chatInput, selectedOutput, recentVars, ledgerVars, autoSyncLock,
                 lastAutoUploadKey, clock, uuid, genCall>>
  /\ UNCHANGED memoVars

\* setTimeout(() => { autoSyncLockRef.current = false }, 250)
LockTimerFires ==
  /\ lockTimer
  /\ lockTimer' = FALSE
  /\ autoSyncLock' = FALSE
  /\ last' = [op |-> "lockTimer"]
  /\ pre' = Pre
  /\ UNCHANGED <<viewVars, recentVars, ledgerVars, lastAutoUploadKey, envVars>>
  /\ UNCHANGED memoVars

(***************************************************************************)
(* onSelectOutput (lines 871-949) and onSendChat (lines 954-1024).  The    *)
(* call is in flight between its fetch and the continuation that replaces  *)
(* the pending message.                                                    *)
(***************************************************************************)
\* The two messages a request appends: the user's and the pending answer.
requestMessages(id1, id2, userText, aiTitle, aiText) ==
  << Msg(id1, "user", Null, Null, userText, FALSE),
     Msg(id2, "ai", aiTitle, Null, aiText, TRUE) >>

MakeText(k) == "Make a " \o outputLabel(k) \o " from my uploaded notes."

\* A variant of the test below that never finds the backend session missing.
uploadAlwaysReady(sid) == FALSE

\* if (!sessionId): the view holds no backend session (lines 873, 957)
uploadNotReady(sid) == ~Truthy(sid)

\* The picker's buttons: rendered in the chat view while no output is
\* selected, disabled while generating or uploading (lines 2076-2098).
OnSelectOutput(k) ==
  /\ k \in PickedOutputs
  /\ view = "chat" /\ selectedOutput = Null /\ ~generating /\ ~uploading
  /\ pre' = IF Truthy(sessionId) THEN Pre ELSE PreView
  /\ IF uploadNotReady(sessionId)
     THEN /\ last' = [op |-> "onSelectOutput", k |-> k, alert |-> TRUE]
          /\ UNCHANGED <<viewVars, recentVars, ledgerVars, autoVars, envVars, memoVars>>
     ELSE /\ uuid + 3 <= MaxUuid
          /\ LET aiLoadingId == randomUUID(uuid + 2)
                 next == messages \o requestMessages(randomUUID(uuid + 1), aiLoadingId,
                                                     MakeText(k), outputLabel(k), "Generating")
             IN /\ \E now1 \in Nows : \E now2 \in now1 .. Min(clock + 1, MaxClock) :
                     LET L1 == upsertActiveSession([selectedOutput |-> k], Closure,
                                                   [Ledger EXCEPT !.uuid = uuid + 2], now1)
                         L2 == upsertActiveSession([messages |-> next], Closure, L1, now2)
                     IN /\ chatSessions' = L2.chatSessions
                        /\ activeChatId' = L2.activeChatId
                        /\ uuid' = L2.uuid
                        /\ clock' = now2
                        /\ threadRecents' = memoized(L2)
                /\ nowTs' = nowTs
                /\ messages' = next
                /\ genCall' = [active |-> TRUE, kind |-> "generate",
                               aiLoadingId |-> aiLoadingId, cl |-> Closure]
          /\ selectedOutput' = k
          /\ generating' = TRUE
          /\ last' = [op |-> "onSelectOutput", k |-> k, alert |-> FALSE, cl |-> Closure,
                       patches |-> << [selectedOutput |-> k],
                                      [messages |-> messages \o requestMessages(
                                         randomUUID(uuid + 1), randomUUID(uuid + 2),
                                         MakeText(k), outputLabel(k), "Generating")] >>]
          /\ UNCHANGED <<files, view, uploading, uploaded, combinedTextLen, sessionId,
                         chatInput, recentVars, autoVars, uploadCall>>

\* What the user types into the chat bar, and chatInput.trim().
ChatInputs == {"hi"}
trim(s) == IF s = " " THEN "" ELSE s

\* onChange of the chat input: enabled in the chat view once an output is selected.
SetChatInput(v) ==
  /\ v \in ChatInputs
  /\ view = "chat" /\ Truthy(selectedOutput)
  /\ chatInput' = v
  /\ last' = [op |-> "setChatInput", v |-> v]
  /\ pre' = Pre
  /\ UNCHANGED <<files, view, uploading, generating, uploaded, combinedTextLen, sessionId,
                 messages, selectedOutput, recentVars, ledgerVars, autoVars, envVars>>
  /\ UNCHANGED memoVars

\* content: [m.title, m.meta, m.text].filter(Boolean).join("\n"), as its lines
content(m) == SelectSeq(<<m.title, m.meta, m.text>>, Truthy)

\* seq.slice(-n)
sliceLast(seq, n) == SubSeq(seq, Max(1, Len(seq) - n + 1), Len(seq))

\* A variant of historyOf that cuts before it drops the pending messages.
historyCutFirst(msgs) ==
  LET kept == SelectSeq(sliceLast(msgs, HistoryLimit), LAMBDA m : ~m.loading)
  IN [i \in DOMAIN kept |-> [role |-> kept[i].role, content |-> content(kept[i])]]

\* history: messages.filter((m) => !m.loading).slice(-12).map(...) (lines 983-989)
historyOf(msgs) ==
  LET kept == sliceLast(SelectSeq(msgs, LAMBDA m : ~m.loading), HistoryLimit)
  IN [i \in DOMAIN kept |-> [role |-> kept[i].role, content |-> content(kept[i])]]

\* A variant of returnsEarly that lets a call through while generating.
returnsOnEmpty(text, gen) == text = ""

\* if (!text || generating) return (line 956)
returnsEarly(text, gen) == text = "" \/ gen

\* The send button and the Enter key of the chat input.  The input is enabled
\* in the chat view once an output is selected (lines 2118-2141); the Enter
\* key calls the handler whatever the input holds, and the handler returns
\* at once on an empty text or while generating (line 956).
OnSendChat ==
  /\ view = "chat" /\ Truthy(selectedOutput)
  /\ pre' = IF trim(chatInput) # "" /\ ~generating /\ Truthy(sessionId) THEN Pre ELSE PreView
  /\ IF returnsEarly(trim(chatInput), generating)
     THEN /\ last' = [op |-> "onSendChat", alert |-> FALSE]
          /\ UNCHANGED <<viewVars, recentVars, ledgerVars, autoVars, envVars, memoVars>>
     ELSE IF uploadNotReady(sessionId)
     THEN /\ last' = [op |-> "onSendChat", alert |-> TRUE]
          /\ UNCHANGED <<viewVars, recentVars, ledgerVars, autoVars, envVars, memoVars>>
     ELSE /\ uuid + 3 <= MaxUuid
          /\ LET aiLoadingId == randomUUID(uuid + 2)
                 next == messages \o requestMessages(randomUUID(uuid + 1), aiLoadingId,
                                                     trim(chatInput), Null, "Thinking")
             IN /\ \E now \in Nows :
                     LET L2 == upsertActiveSession([messages |-> next], Closure,
                                                   [Ledger EXCEPT !.uuid = uuid + 2], now)
                     IN /\ chatSessions' = L2.chatSessions
                        /\ activeChatId' = L2.activeChatId
                        /\ uuid' = L2.uuid
                        /\ clock' = now
                        /\ threadRecents' = memoized(L2)
                /\ nowTs' = nowTs
                /\ messages' = next
                /\ genCall' = [active |-> TRUE, kind |-> "chat",
                               aiLoadingId |-> aiLoadingId, cl |-> Closure,
                               history |-> historyOf(messages)]
          /\ chatInput' = ""
          /\ generating' = TRUE
          /\ last' = [op |-> "onSendChat", alert |-> FALSE, cl |-> Closure,
                       patches |-> << [messages |-> messages \o requestMessages(
                                         randomUUID(uuid + 1), randomUUID(uuid + 2),
                                         trim(chatInput), Null, "Thinking")] >>]
          /\ UNCHANGED <<files, view, uploading, uploaded, combinedTextLen, sessionId,
                         selectedOutput, recentVars, autoVars, uploadCall>>

\* The text that replaces the pending message: the answer of an ok response,
\* or `Error: ${e?.message || "Something went wrong"}`.
Outcomes == {"answer", "Error: boom"}

\* The continuation of either call: success (lines 933-937, 1008-1012) or
\* failure (lines 939-945, 1014-1020), then finally.
GenDone(text) ==
  /\ genCall.active
  /\ text \in Outcomes
  /\ LET next == resolveLoading(messages, genCall.aiLoadingId, text)
     IN /\ \E now \in Nows :
             LET L2 == upsertActiveSession([messages |-> next], genCall.cl, Ledger, now)
             IN /\ L2.uuid <= MaxUuid
                /\ chatSessions' = L2.chatSessions
                /\ activeChatId' = L2.activeChatId
                /\ uuid' = L2.uuid
                /\ clock' = now
                /\ threadRecents' = memoized(L2)
        /\ nowTs' = nowTs
        /\ messages' = next
  /\ generating' = FALSE
  /\ genCall' = NoCall
  /\ last' = [op |-> "genDone", text |-> text, call |-> genCall, cl |-> genCall.cl,
               prev |-> messages,
               patches |-> << [messages |-> resolveLoading(messages, genCall.aiLoadingId, text)] >>]
  /\ pre' = Pre
  /\ UNCHANGED <<files, view, uploading, uploaded, combinedTextLen, sessionId, chatInput,
                 selectedOutput, recentVars, autoVars, uploadCall>>

(***************************************************************************)
(* upsertActiveSession called on its own, with any Partial<ChatSession>:   *)
(* the patches below carry a title that differs from the name of their     *)
(* first file, an empty title, a file without a name, or no title.         *)
(***************************************************************************)
FileB == [name |-> "b.pdf", status |-> "extracted", textLen |-> 0]
FileNameless == [name |-> "", status |-> "extracted", textLen |-> 0]
TitlePatches ==
  { [title |-> "Notes", uploaded |-> <<FileB>>],
    [title |-> "", uploaded |-> <<FileB>>],
    [uploaded |-> <<FileB>>],
    [uploaded |-> <<FileNameless>>],
    [backendSessionId |-> "s2"],
    [combinedTextLen |-> 1] }

UpsertActiveSession(patch) ==
  /\ patch \in TitlePatches
  /\ \E now \in Nows :
       LET L2 == upsertActiveSession(patch, Closure, Ledger, now)
       IN /\ L2.uuid <= MaxUuid
          /\ chatSessions' = L2.chatSessions
          /\ activeChatId' = L2.activeChatId
          /\ uuid' = L2.uuid
          /\ clock' = now
          /\ threadRecents' = memoized(L2)
  /\ nowTs' = nowTs
  /\ last' = [op |-> "upsertActiveSession", cl |-> Closure, patches |-> <<patch>>]
  /\ pre' = Pre
  /\ UNCHANGED <<viewVars, recentVars, autoVars, uploadCall, genCall>>

(***************************************************************************)
(* The recents list (lines 164-182, 1900-1907).  Strings are compared by   *)
(* their characters: chars gives those of the titles and queries in use.   *)
(***************************************************************************)
chars(s) ==
  CASE s = "" -> <<>>
    [] s = "a.pdf" -> <<"a", ".", "p", "d", "f">>
    [] s = "b.pdf" -> <<"b", ".", "p", "d", "f">>
    [] s = "unknown" -> <<"u", "n", "k", "n", "o", "w", "n">>
    [] s = "New chat" -> <<"N", "e", "w", " ", "c", "h", "a", "t">>
    [] s = "Notes" -> <<"N", "o", "t", "e", "s">>
    [] s = " A " -> <<" ", "A", " ">>
    [] s = "zzz" -> <<"z", "z", "z">>
    [] s = " " -> <<" ">>

\* String.prototype.toLowerCase, on the characters in use
toLowerCase(cs) ==
  [i \in DOMAIN cs |-> CASE cs[i] = "N" -> "n" [] cs[i] = "A" -> "a" [] OTHER -> cs[i]]

\* String.prototype.trim
RECURSIVE trimStart(_)
trimStart(cs) == IF cs # <<>> /\ Head(cs) = " " THEN trimStart(Tail(cs)) ELSE cs
RECURSIVE trimEnd(_)
trimEnd(cs) ==
  IF cs # <<>> /\ cs[Len(cs)] = " " THEN trimEnd(SubSeq(cs, 1, Len(cs) - 1)) ELSE cs
\* Faulty variant of trimChars: the text is not trimmed.
untrimmed(cs) == cs
trimChars(cs) == trimEnd(trimStart(cs))

\* String.prototype.includes
includes(hay, needle) ==
  \E i \in 0 .. (Len(hay) - Len(needle)) : SubSeq(hay, i + 1, i + Len(needle)) = needle

\* filteredRecents, as the positions of the ledger it keeps (the sort of
\* threadRecents permutes them and does not change their number)
filteredIndexes ==
  LET q == toLowerCase(trimChars(chars(recentQuery)))
  IN IF q = <<>> THEN DOMAIN chatSessions
     ELSE {i \in DOMAIN chatSessions : includes(toLowerCase(chars(chatSessions[i].title)), q)}

\* recentQuery.trim().toLowerCase()
queryOf(query) == toLowerCase(trimChars(chars(query)))

RECURSIVE keepMatching(_, _)
keepMatching(recents, q) ==
  IF recents = <<>> THEN <<>>
  ELSE IF includes(toLowerCase(chars(Head(recents).title)), q)
       THEN <<Head(recents)>> \o keepMatching(Tail(recents), q)
       ELSE keepMatching(Tail(recents), q)

\* filteredRecents (lines 169-173)
filteredRecents ==
  LET q == queryOf(recentQuery)
  IN IF q = <<>> THEN threadRecents ELSE keepMatching(threadRecents, q)

\* filteredRecents.slice(0, recentVisible): recentVisible is never negative
slice0(seq, n) == SubSeq(seq, 1, Min(n, Len(seq)))

\* visibleRecents (line 175)
visibleRecents == slice0(filteredRecents, recentVisible)

\* What the user types into the search box.
Queries == {" A ", "zzz", " "}

\* onChange of the search box
SetRecentQuery(q) ==
  /\ q \in Queries
  /\ recentQuery' = q
  /\ recentVisible' = 12
  /\ last' = [op |-> "setRecentQuery", q |-> q]
  /\ pre' = Pre
  /\ UNCHANGED <<viewVars, ledgerVars, autoVars, envVars>>
  /\ UNCHANGED memoVars

\* onRecentsScroll, scrolled near the bottom (otherwise it returns).  The list
\* (line 1919) scrolls when its rows overflow it, so it holds a row.
OnRecentsScroll ==
  /\ visibleRecents # <<>>
  /\ recentVisible' = Min(recentVisible + 10, Cardinality(filteredIndexes))
  /\ last' = [op |-> "onRecentsScroll"]
  /\ pre' = Pre
  /\ UNCHANGED <<viewVars, recentQuery, ledgerVars, autoVars, envVars>>
  /\ UNCHANGED memoVars

(***************************************************************************)
(* The interval of nowTs (lines 132-139): every 60 s it stores Date.now().  *)
(* The render that follows keeps the memo of threadRecents, whose only     *)
(* dependency is chatSessions (line 167).                                  *)
(***************************************************************************)
SetNowTs ==
  /\ Max(clock, nowTs + 1) <= MaxNow
  /\ clock' = Max(clock, nowTs + 1)
  /\ nowTs' = Max(clock, nowTs + 1)
  /\ threadRecents' = threadRecents
  /\ last' = [op |-> "setNowTs"]
  /\ pre' = Pre
  /\ UNCHANGED <<viewVars, recentVars, ledgerVars, autoVars, uuid, uploadCall, genCall>>

(***************************************************************************)
(* The specifications.                                                     *)
(***************************************************************************)
FileActions ==
  \/ \E incoming \in Incoming : AddFiles(incoming)
  \/ \E i \in {1} : RemoveFile(i)

UploadActions ==
  \/ OnContinue
  \/ \E data \in UploadResponses : UploadDone(data)
  \/ UploadFail
  \/ LockTimerFires

ThreadActions ==
  \/ StartNewChat
  \/ \E id \in OpenIds : OpenChatThread(id)
  \/ \E key \in ClickedKeys : OnSidebarSelect(key)

GenerateActions ==
  \/ \E k \in PickedOutputs : OnSelectOutput(k)
  \/ \E v \in ChatInputs : SetChatInput(v)
  \/ OnSendChat
  \/ \E text \in Outcomes : GenDone(text)

RecentsActions ==
  \/ \E q \in Queries : SetRecentQuery(q)
  \/ OnRecentsScroll

\* The page: uploads, threads, generation and chat.
Next == FileActions \/ UploadActions \/ ThreadActions \/ GenerateActions

Spec == Init /\ [][Next]_vars

\* The page seen from the sidebar: uploads that the backend answers with
\* RespPreview, threads, the chat input and the search box of the recents list.
ViewNext ==
  \/ \E incoming \in Incoming : AddFiles(incoming)
  \/ OnContinue
  \/ UploadDone(RespPreview)
  \/ UploadFail
  \/ StartNewChat
  \/ \E id \in OpenIds : OpenChatThread(id)
  \/ OnSidebarSelect("flash_cards")
  \/ \E v \in ChatInputs : SetChatInput(v)
  \/ RecentsActions

ViewSpec == Init /\ [][ViewNext]_vars

\* The page left open: uploads, threads, and the interval of nowTs.
LabelNext ==
  \/ \E incoming \in Incoming : AddFiles(incoming)
  \/ OnContinue
  \/ UploadDone(RespNew)
  \/ StartNewChat
  \/ \E id \in OpenIds : OpenChatThread(id)
  \/ SetNowTs

LabelSpec == Init /\ [][LabelNext]_vars

\* The recents list: threads on two different files, the search box and the
\* scroll of the list.
RecentsNext ==
  \/ \E incoming \in Incoming : AddFiles(incoming)
  \/ OnContinue
  \/ \E data \in {RespNew, RespOld} : UploadDone(data)
  \/ StartNewChat
  \/ \E id \in OpenIds : OpenChatThread(id)
  \/ RecentsActions

RecentsSpec == Init /\ [][RecentsNext]_vars

\* Uploads answered with bodies that differ in their length and text keys,
\* into new threads and into threads opened from the recents list.
LengthNext ==
  \/ \E incoming \in Incoming : AddFiles(incoming)
  \/ OnContinue
  \/ \E data \in LengthBodies : UploadDone(data)
  \/ StartNewChat
  \/ \E id \in OpenIds : OpenChatThread(id)

LengthSpec == Init /\ [][LengthNext]_vars

\* upsertActiveSession on its own: the function is called with each patch of
\* TitlePatches, on an empty ledger and on the thread it created, which the
\* user may open from the recents list.
TitleNext ==
  \/ \E patch \in TitlePatches : UpsertActiveSession(patch)
  \/ \E id \in OpenIds : OpenChatThread(id)

TitleSpec == Init /\ [][TitleNext]_vars

\* The body of a backend that extracts every file it is sent.
EchoOf(sent) ==
  [session_id |-> "s1",
   files |-> [i \in DOMAIN sent |-> [name |-> sent[i], status |-> "extracted"]]]

\* Files the user adds one at a time.
MoreIncoming == { <<"a.pdf">>, <<"b.pdf">>, <<"c.pdf">> }

\* Uploads with a backend that always answers, and a user who only adds
\* files and presses Continue: the fetch settles and the 250 ms timer fires,
\* the user's actions need not happen.
AutoNext ==
  \/ \E incoming \in MoreIncoming : AddFiles(incoming)
  \/ OnContinue
  \/ uploadCall.active /\ UploadDone(EchoOf(uploadCall.cl.files))
  \/ LockTimerFires

AutoSpec ==
  /\ Init /\ [][AutoNext]_vars
  /\ WF_vars(uploadCall.active /\ UploadDone(EchoOf(uploadCall.cl.files)))
  /\ WF_vars(LockTimerFires)

\* Requests whose fetch settles: a generate request, once issued, resolves or
\* rejects, while the user uploads, picks an output and switches threads.
PendingNext ==
  \/ \E incoming \in Incoming : AddFiles(incoming)
  \/ OnContinue
  \/ UploadDone(RespNew)
  \/ \E k \in PickedOutputs : OnSelectOutput(k)
  \/ \E text \in Outcomes : GenDone(text)
  \/ StartNewChat
  \/ \E id \in OpenIds : OpenChatThread(id)

PendingSpec ==
  Init /\ [][PendingNext]_vars /\ WF_vars(\E text \in Outcomes : GenDone(text))

(***************************************************************************)
(* A thread with a long transcript, opened from the recents list.  The     *)
(* transcript has up to MaxTranscript messages, the user's and the         *)
(* assistant's in turn, and at most one of them is pending: a thread keeps *)
(* a pending message when its request ended after the user had left it.    *)
(***************************************************************************)
oldMessage(i, pending) ==
  IF pending THEN Msg("m" \o ToString(i), "ai", Null, Null, "Thinking", TRUE)
  ELSE IF i % 2 = 0 THEN Msg("m" \o ToString(i), "ai", "Podcast", Null, "m" \o ToString(i), FALSE)
  ELSE Msg("m" \o ToString(i), "user", Null, Null, "m" \o ToString(i), FALSE)

Transcript(n, p) == [i \in 1..n |-> oldMessage(i, i = p)]
Transcripts == {Transcript(n, p) : n \in 0..MaxTranscript, p \in 0..MaxTranscript}

FileA == [name |-> "a.pdf", status |-> "extracted", textLen |-> 0]

\* picked is the output the thread has selected, or Null.
OpenedThread(msgs, picked) ==
  [id |-> randomUUID(1), title |-> "a.pdf", updatedAt |-> 0, backendSessionId |-> "s1",
   uploaded |-> <<FileA>>, combinedTextLen |-> 0, selectedOutput |-> picked,
   messages |-> msgs]

HistoryInit ==
  \E msgs \in Transcripts : \E picked \in {Null} \cup PickedOutputs :
    /\ files = <<>>
    /\ view = "chat"
    /\ uploading = FALSE
    /\ generating = FALSE
    /\ uploaded = <<FileA>>
    /\ combinedTextLen = 0
    /\ sessionId = "s1"
    /\ messages = msgs
    /\ chatInput = ""
    /\ selectedOutput = picked
    /\ recentQuery = ""
    /\ recentVisible = 12
    /\ chatSessions = <<OpenedThread(msgs, picked)>>
    /\ activeChatId = randomUUID(1)
    /\ autoSyncLock = FALSE
    /\ lastAutoUploadKey = <<>>
    /\ clock = 0
    /\ uuid = 1
    /\ uploadCall = NoCall
    /\ genCall = NoCall
    /\ lockTimer = FALSE
    /\ nowTs = 0
    /\ threadRecents = recentsOf(<<OpenedThread(msgs, picked)>>, 0)
    /\ last = [op |-> "init"]
    /\ pre = Pre

\* Generation and chat in the opened thread.
HistoryNext ==
  \/ \E k \in PickedOutputs : OnSelectOutput(k)
  \/ \E v \in ChatInputs : SetChatInput(v)
  \/ OnSendChat
  \/ \E text \in Outcomes : GenDone(text)

HistorySpec == HistoryInit /\ [][HistoryNext]_vars

(***************************************************************************)
(* The bootstrap effect (lines 316-338) upserts the view into an empty     *)
(* ledger when the view holds content.  bootstrapFires is its guard; the   *)
(* page never reaches a state where it holds (BootstrapIdle), so the       *)
(* effect is no action of the specifications.                              *)
(***************************************************************************)
bootstrapFires ==
  /\ Len(chatSessions) = 0
  /\ hasRealContent(uploaded, sessionId, messages)
  /\ ~(view = "upload" /\ ~Truthy(sessionId))

BootstrapIdle == ~bootstrapFires

(***************************************************************************)
(* Vocabulary of the properties.                                           *)
(***************************************************************************)
\* The ids of a ledger, and its positions holding a given id.
IdsOf(sessions) == {sessions[i].id : i \in DOMAIN sessions}
At(sessions, id) == {i \in DOMAIN sessions : sessions[i].id = id}

\* The session of a ledger with a given id (the id is in the ledger).
SessionOf(sessions, id) == sessions[CHOOSE i \in DOMAIN sessions : sessions[i].id = id]

\* The patches the last handler passed to upsertActiveSession, in order.
Upserts == IF "patches" \in DOMAIN last THEN last.patches ELSE <<>>
Upserted == Upserts # <<>>

\* A patch, merged with the view now displayed, carries real content: an
\* uploaded file, a non-null backend session id, or a message.
Carries(patch) ==
  \/ (IF "uploaded" \in DOMAIN patch THEN patch.uploaded ELSE uploaded) # <<>>
  \/ (IF "backendSessionId" \in DOMAIN patch /\ patch.backendSessionId # Null
      THEN patch.backendSessionId ELSE sessionId) # Null
  \/ (IF "messages" \in DOMAIN patch THEN patch.messages ELSE messages) # <<>>

\* No session was active when the last handler ran / one was, and was in the ledger.
WasIdle == pre.activeChatId = Null
WasActive == pre.activeChatId \in IdsOf(pre.chatSessions)

\* The last handler left the ledger and the pointer as they were.
LedgerKept == chatSessions = pre.chatSessions /\ activeChatId = pre.activeChatId

\* The last handler added exactly one session, at the head, and made it active.
OneAdded ==
  /\ Len(chatSessions) = Len(pre.chatSessions) + 1
  /\ Tail(chatSessions) = pre.chatSessions
  /\ chatSessions[1].id \notin IdsOf(pre.chatSessions)
  /\ activeChatId = chatSessions[1].id

\* A session holds real content.
HasContent(s) == s.uploaded # <<>> \/ s.backendSessionId # Null \/ s.messages # <<>>

(***************************************************************************)
(* C1.  No session is created without real content: an upsert issued while *)
(* no session is active, whose patch merged with the view now displayed    *)
(* has no uploaded file, no non-null backend session id and no message,    *)
(* leaves the ledger and the active pointer unchanged; and every session   *)
(* of the ledger has an uploaded file, a non-null backend session id or a  *)
(* message.                                                                *)
(***************************************************************************)
C1_NoEmptyUpsert ==
  /\ (Upserted /\ WasIdle /\ \A i \in DOMAIN Upserts : ~Carries(Upserts[i])) => LedgerKept
  /\ \A i \in DOMAIN chatSessions : HasContent(chatSessions[i])

(***************************************************************************)
(* C2.  An upsert issued while no session is active, whose patch merged    *)
(* with the view has an uploaded file, a non-null backend session id or a  *)
(* message, adds exactly one session, at the head of the ledger, and makes *)
(* it the active session.                                                  *)
(***************************************************************************)
C2_ContentCreates ==
  (Upserted /\ WasIdle /\ \E i \in DOMAIN Upserts : Carries(Upserts[i])) => OneAdded

\* A session was added in front of the sessions the ledger already held.
C2_Witness ==
  /\ Upserted /\ WasIdle /\ \E i \in DOMAIN Upserts : Carries(Upserts[i])
  /\ pre.chatSessions # <<>>
  /\ OneAdded

(***************************************************************************)
(* C3.  After startNewChat (no session active, the ledger not empty), the  *)
(* upsert of a completed upload that was started from the upload view      *)
(* creates one more session, whose id differs from every existing id, and  *)
(* leaves every field of every session that existed before unchanged.      *)
(***************************************************************************)
AfterStartNewUpload ==
  /\ last.op = "uploadDone" /\ last.cl.view = "upload"
  /\ WasIdle /\ pre.chatSessions # <<>>

C3_SecondSession ==
  AfterStartNewUpload =>
    /\ Len(chatSessions) = Len(pre.chatSessions) + 1
    /\ Cardinality(IdsOf(chatSessions) \ IdsOf(pre.chatSessions)) = 1
    /\ \A i \in DOMAIN pre.chatSessions :
         \E j \in DOMAIN chatSessions : chatSessions[j] = pre.chatSessions[i]

\* The second upload completed later than the first session was last updated.
C3_Witness ==
  /\ AfterStartNewUpload
  /\ Len(chatSessions) = 2
  /\ chatSessions[1].updatedAt > chatSessions[2].updatedAt
  /\ chatSessions[1].id # chatSessions[2].id

(***************************************************************************)
(* C4.  An upsert issued while a session is active and in the ledger       *)
(* changes only that session's record: every other session is identical,   *)
(* the length and the order of the ledger are unchanged, and so is the     *)
(* active pointer.                                                         *)
(***************************************************************************)
C4_PatchFrame ==
  (Upserted /\ WasActive) =>
    /\ Len(chatSessions) = Len(pre.chatSessions)
    /\ \A i \in DOMAIN pre.chatSessions :
         /\ chatSessions[i].id = pre.chatSessions[i].id
         /\ pre.chatSessions[i].id # pre.activeChatId => chatSessions[i] = pre.chatSessions[i]
    /\ activeChatId = pre.activeChatId

\* The active session of a ledger of two or more was patched.
C4_Witness ==
  /\ Upserted /\ WasActive
  /\ Len(chatSessions) >= 2
  /\ chatSessions # pre.chatSessions

(***************************************************************************)
(* C5.  The ledger never loses or duplicates a session: the ids of the     *)
(* ledger are pairwise distinct; a handler leaves every session it found   *)
(* in the ledger, in the same order and under the same id; the length      *)
(* never decreases, and grows by at most one, and only by an upsert.       *)
(***************************************************************************)
C5_NoLossNoDuplicate ==
  LET d == Len(chatSessions) - Len(pre.chatSessions)
  IN /\ \A i, j \in DOMAIN chatSessions : chatSessions[i].id = chatSessions[j].id => i = j
     /\ d \in {0, 1}
     /\ d = 1 => Upserted
     /\ \A i \in DOMAIN pre.chatSessions : chatSessions[i + d].id = pre.chatSessions[i].id

\* An older thread of a ledger of two or more was reopened.
C5_Witness ==
  /\ Len(chatSessions) >= 2
  /\ last.op = "openChatThread"
  /\ last.id = chatSessions[Len(chatSessions)].id
  /\ activeChatId = last.id

(***************************************************************************)
(* C6.  In every reachable state the active pointer is null or the id of   *)
(* exactly one session of the ledger, and a patching upsert is applied to  *)
(* the session with that id: the fields its patches carry are those the    *)
(* session holds afterwards, and its updatedAt is the time of the call.    *)
(***************************************************************************)
PatchLanded(p, s) ==
  /\ "messages" \in DOMAIN p => s.messages = p.messages
  /\ "uploaded" \in DOMAIN p => s.uploaded = p.uploaded
  /\ "combinedTextLen" \in DOMAIN p => s.combinedTextLen = p.combinedTextLen
  /\ ("selectedOutput" \in DOMAIN p /\ p.selectedOutput # Null) =>
       s.selectedOutput = p.selectedOutput
  /\ ("backendSessionId" \in DOMAIN p /\ p.backendSessionId # Null) =>
       s.backendSessionId = p.backendSessionId

C6_ActivePointer ==
  /\ activeChatId = Null \/ Cardinality(At(chatSessions, activeChatId)) = 1
  /\ (Upserted /\ WasActive) =>
       \E i \in At(chatSessions, pre.activeChatId) :
         /\ \A k \in DOMAIN Upserts : PatchLanded(Upserts[k], chatSessions[i])
         /\ chatSessions[i].updatedAt = clock

\* A session that is not at the head of the ledger was patched.
C6_Witness ==
  /\ Upserted /\ WasActive
  /\ Len(chatSessions) >= 2
  /\ pre.activeChatId # chatSessions[1].id
  /\ SessionOf(chatSessions, pre.activeChatId) # SessionOf(pre.chatSessions, pre.activeChatId)

(***************************************************************************)
(* C7.  openChatThread(id) for an id that is not in the ledger leaves the  *)
(* ledger, the active pointer and all view state (view mode, local and     *)
(* uploaded files, combined length, backend session id, selected output,   *)
(* messages, chat input) unchanged.                                        *)
(***************************************************************************)
OpenedAbsent == last.op = "openChatThread" /\ last.id \notin IdsOf(pre.chatSessions)

C7_OpenAbsent ==
  OpenedAbsent =>
    /\ chatSessions = pre.chatSessions
    /\ activeChatId = pre.activeChatId
    /\ view = pre.view
    /\ files = pre.files
    /\ uploaded = pre.uploaded
    /\ combinedTextLen = pre.combinedTextLen
    /\ sessionId = pre.sessionId
    /\ selectedOutput = pre.selectedOutput
    /\ messages = pre.messages
    /\ chatInput = pre.chatInput

\* An absent id was opened over a ledger of two while the upload view showed.
C7_Witness ==
  /\ OpenedAbsent
  /\ Len(chatSessions) >= 2
  /\ view = "upload"
  /\ activeChatId # Null

(***************************************************************************)
(* C8.  openChatThread(id) for an id in the ledger makes that session      *)
(* active, switches the view to chat, and sets the view's uploaded files,  *)
(* combined text length, backend session id, selected output and messages  *)
(* to the values stored in that session, and changes no ledger record.     *)
(***************************************************************************)
OpenedPresent == last.op = "openChatThread" /\ last.id \in IdsOf(pre.chatSessions)

C8_OpenPresent ==
  OpenedPresent =>
    LET s == SessionOf(pre.chatSessions, last.id)
    IN /\ activeChatId = last.id
       /\ view = "chat"
       /\ uploaded = s.uploaded
       /\ combinedTextLen = s.combinedTextLen
       /\ sessionId = s.backendSessionId
       /\ selectedOutput = s.selectedOutput
       /\ messages = s.messages
       /\ chatSessions = pre.chatSessions

\* The older of two threads was opened while the other one was active.
C8_Witness ==
  /\ OpenedPresent
  /\ Len(chatSessions) >= 2
  /\ last.id # chatSessions[1].id
  /\ pre.activeChatId \in IdsOf(chatSessions) \ {last.id}
  /\ messages # <<>>

(***************************************************************************)
(* C9.  startNewChat sets the active pointer to null, resets the view      *)
(* state (local files, uploaded files, combined length, backend session    *)
(* id, messages, chat input, selected output, search query, revealed       *)
(* count) to empty or default, and leaves every ledger entry unchanged.    *)
(***************************************************************************)
C9_StartNewResets ==
  last.op = "startNewChat" =>
    /\ activeChatId = Null
    /\ view = "upload"
    /\ files = <<>>
    /\ uploaded = <<>>
    /\ combinedTextLen = 0
    /\ sessionId = Null
    /\ messages = <<>>
    /\ chatInput = ""
    /\ selectedOutput = Null
    /\ recentQuery = ""
    /\ recentVisible = 12
    /\ chatSessions = pre.chatSessions

\* startNewChat ran when every value it resets differed from its default.
C9_Witness ==
  /\ last.op = "startNewChat"
  /\ last.allSet
  /\ chatSessions # <<>>

(***************************************************************************)
(* C10.  Once a session's backendSessionId is non-null it never becomes    *)
(* null again: a handler whose patches omit backendSessionId, or carry     *)
(* null, leaves every session's backendSessionId as it was.                *)
(***************************************************************************)
NoSidPatched ==
  \A k \in DOMAIN Upserts :
    "backendSessionId" \notin DOMAIN Upserts[k] \/ Upserts[k].backendSessionId = Null

C10_SidKept ==
  \A i \in DOMAIN pre.chatSessions :
    \E j \in DOMAIN chatSessions :
      /\ chatSessions[j].id = pre.chatSessions[i].id
      /\ pre.chatSessions[i].backendSessionId # Null => chatSessions[j].backendSessionId # Null
      /\ NoSidPatched => chatSessions[j].backendSessionId = pre.chatSessions[i].backendSessionId

\* A patch carrying a null backendSessionId was applied to a session that held one.
C10_Witness ==
  /\ Upserted /\ WasActive
  /\ \E k \in DOMAIN Upserts :
       "backendSessionId" \in DOMAIN Upserts[k] /\ Upserts[k].backendSessionId = Null
  /\ SessionOf(pre.chatSessions, pre.activeChatId).backendSessionId # Null
  /\ SessionOf(chatSessions, pre.activeChatId) # SessionOf(pre.chatSessions, pre.activeChatId)

(***************************************************************************)
(* C11.  An upsert on the active session sets that session's updatedAt to  *)
(* a value strictly greater than the value it had before the call.         *)
(***************************************************************************)
C11_UpdatedAtGrows ==
  (Upserted /\ WasActive) =>
    \A i \in DOMAIN pre.chatSessions :
      pre.chatSessions[i].id = pre.activeChatId =>
        \E j \in DOMAIN chatSessions :
          /\ chatSessions[j].id = pre.activeChatId
          /\ chatSessions[j].updatedAt > pre.chatSessions[i].updatedAt

(***************************************************************************)
(* C12.  In every reachable state the recency list holds the sessions of   *)
(* the ledger, each once, ordered by updatedAt descending, and sessions    *)
(* with equal updatedAt keep their relative ledger order.                  *)
(***************************************************************************)
PosOf(sessions, id) == CHOOSE i \in DOMAIN sessions : sessions[i].id = id

C12_RecencyOrder ==
  /\ Len(threadRecents) = Len(chatSessions)
  /\ {threadRecents[i].id : i \in DOMAIN threadRecents} = IdsOf(chatSessions)
  /\ \A i, j \in DOMAIN threadRecents :
       i < j =>
         LET a == PosOf(chatSessions, threadRecents[i].id)
             b == PosOf(chatSessions, threadRecents[j].id)
         IN \/ chatSessions[a].updatedAt > chatSessions[b].updatedAt
            \/ chatSessions[a].updatedAt = chatSessions[b].updatedAt /\ a < b

\* The recency order differs from the ledger order: the older session was
\* updated after the newer one.
C12_Witness ==
  /\ Len(threadRecents) >= 2
  /\ threadRecents[1].id = chatSessions[2].id
  /\ chatSessions[2].updatedAt > chatSessions[1].updatedAt

(***************************************************************************)
(* C13.  After an upsert patches an existing session, that session is the  *)
(* first entry of the recency list, whatever other sessions the ledger     *)
(* holds.                                                                  *)
(***************************************************************************)
C13_PatchedFirst ==
  (Upserted /\ WasActive) =>
    threadRecents # <<>> /\ threadRecents[1].id = pre.activeChatId

(***************************************************************************)
(* C14.  The label displayed for a session of the recency list always      *)
(* equals the bucket of (latest now - updatedAt): it is recomputed when    *)
(* the now value is refreshed, even when the ledger has not changed.       *)
(***************************************************************************)
C14_LabelsCurrent ==
  \A i \in DOMAIN threadRecents :
    \A j \in DOMAIN chatSessions :
      chatSessions[j].id = threadRecents[i].id =>
        threadRecents[i].sub = toRelativeSub(chatSessions[j].updatedAt, nowTs)

(***************************************************************************)
(* C15.  Filtering the recency list keeps exactly the sessions whose title *)
(* contains the trimmed query as a case-insensitive substring, in recency  *)
(* order; a query matching no title yields an empty list, an empty or      *)
(* whitespace-only query the full recency list; the visible list is the    *)
(* filtered list truncated to the revealed count.                          *)
(***************************************************************************)
SameLetter(c, d) == c = d \/ {c, d} = {"A", "a"} \/ {c, d} = {"N", "n"}

ContainsFolded(hay, needle) ==
  \E k \in 0 .. (Len(hay) - Len(needle)) :
    \A n \in 1 .. Len(needle) : SameLetter(hay[k + n], needle[n])

Trimmed(cs) ==
  LET ns == {i \in DOMAIN cs : cs[i] # " "}
  IN IF ns = {} THEN <<>>
     ELSE SubSeq(cs, CHOOSE a \in ns : \A b \in ns : a <= b,
                     CHOOSE a \in ns : \A b \in ns : a >= b)

Kept ==
  {i \in DOMAIN threadRecents :
     ContainsFolded(chars(threadRecents[i].title), Trimmed(chars(recentQuery)))}

C15_Filtering ==
  /\ Len(filteredRecents) = Cardinality(Kept)
  /\ \A n \in DOMAIN filteredRecents :
       \E i \in Kept :
         /\ Cardinality({j \in Kept : j <= i}) = n
         /\ filteredRecents[n] = threadRecents[i]
  /\ Len(visibleRecents) = Min(recentVisible, Len(filteredRecents))
  /\ \A n \in DOMAIN visibleRecents : visibleRecents[n] = filteredRecents[n]

\* The query " A " keeps the second of two threads and drops the first.
C15_Witness ==
  /\ recentQuery = " A "
  /\ Len(threadRecents) = 2
  /\ filteredRecents = <<threadRecents[2]>>
  /\ visibleRecents = filteredRecents

(***************************************************************************)
(* C16.  The revealed count starts at 12 and a reveal raises it and never  *)
(* lowers it, so in every reachable state the visible list shows at least  *)
(* min(12, number of filtered sessions) entries.                           *)
(***************************************************************************)
C16_VisibleFloor ==
  Len(visibleRecents) >= Min(12, Len(filteredRecents))

(***************************************************************************)
(* C17.  The combined text length of an upload response is the first of:   *)
(* the number combined_len, the number combinedLen, the length of the      *)
(* string combined_text, the number preview_len, the length of the string  *)
(* preview, and 0 when the body carries none of them.  The view and the    *)
(* session the upload wrote store that value.                              *)
(***************************************************************************)
LengthKeys == <<"combined_len", "combinedLen", "combined_text", "preview_len", "preview">>
TextKeys == {"combined_text", "preview"}

Preferred(data) ==
  LET carried == {i \in DOMAIN LengthKeys : LengthKeys[i] \in DOMAIN data}
  IN IF carried = {} THEN 0
     ELSE LET k == LengthKeys[CHOOSE i \in carried : \A j \in carried : i <= j]
          IN IF k \in TextKeys THEN Len(data[k]) ELSE data[k]

C17_PreferredLength ==
  last.op = "uploadDone" =>
    /\ combinedTextLen = Preferred(last.data)
    /\ activeChatId \in IdsOf(chatSessions) =>
         SessionOf(chatSessions, activeChatId).combinedTextLen = Preferred(last.data)

\* A body with a preview string and no other length or text key was stored
\* in a session that held another length before.
C17_Witness ==
  /\ last.op = "uploadDone"
  /\ "preview" \in DOMAIN last.data
  /\ \A i \in 1..4 : LengthKeys[i] \notin DOMAIN last.data
  /\ WasActive
  /\ SessionOf(pre.chatSessions, pre.activeChatId).combinedTextLen # Len(last.data.preview)
  /\ SessionOf(chatSessions, pre.activeChatId).combinedTextLen = Len(last.data.preview)

(***************************************************************************)
(* C18.  When a generate or chat request fails, the pending message of     *)
(* that request is replaced in place: the message with its id is in the    *)
(* list, keeps its position, gets loading = FALSE and the text             *)
(* "Error: <message>"; the list keeps its length and its other messages;   *)
(* and the active session of the ledger holds the same list.               *)
(***************************************************************************)
RequestFailed == last.op = "genDone" /\ last.text = "Error: boom"

C18_FailureInPlace ==
  RequestFailed =>
    /\ Len(messages) = Len(last.prev)
    /\ \E i \in DOMAIN last.prev : last.prev[i].id = last.call.aiLoadingId
    /\ \A i \in DOMAIN last.prev :
         messages[i] = IF last.prev[i].id = last.call.aiLoadingId
                       THEN [last.prev[i] EXCEPT !.loading = FALSE, !.text = "Error: boom"]
                       ELSE last.prev[i]
    /\ activeChatId \in IdsOf(chatSessions)
    /\ SessionOf(chatSessions, activeChatId).messages = messages

(***************************************************************************)
(* C19.  onSelectOutput or onSendChat called while the view holds no       *)
(* backend session id starts no request, appends no message, and leaves    *)
(* the ledger, the active pointer, the selected output and the generating  *)
(* flag as they were.  onSelectOutput raises the alert; onSendChat raises  *)
(* it when the trimmed input is not empty and no generation is running,    *)
(* and returns silently otherwise.                                         *)
(***************************************************************************)
CalledWithoutSid ==
  /\ last.op \in {"onSelectOutput", "onSendChat"}
  /\ "sessionId" \in DOMAIN pre
  /\ pre.sessionId = Null

NothingSent ==
  /\ genCall = pre.genCall /\ uploadCall = pre.uploadCall
  /\ messages = pre.messages
  /\ chatSessions = pre.chatSessions /\ activeChatId = pre.activeChatId
  /\ selectedOutput = pre.selectedOutput
  /\ generating = pre.generating

Sendable == trim(pre.chatInput) # "" /\ ~pre.generating

C19_NoSidNoRequest ==
  CalledWithoutSid =>
    /\ NothingSent
    /\ last.alert <=> (last.op = "onSelectOutput" \/ Sendable)

\* Both handlers raised the alert in a thread that holds messages.
C19_Witness ==
  /\ CalledWithoutSid /\ last.op = "onSendChat" /\ last.alert
  /\ messages # <<>> /\ chatSessions # <<>>

\* The statement without the early return of onSendChat: the alert is raised
\* on every call made without a backend session id.
C19_AlwaysAlerts ==
  CalledWithoutSid => (NothingSent /\ last.alert)

(***************************************************************************)
(* C20.  The title of a session is chosen when the session is created: the *)
(* title of the patch if it is not empty, else the name of the session's   *)
(* first uploaded file, else "New chat".  An upsert whose patch carries no *)
(* title leaves every title as it was.                                     *)
(***************************************************************************)
PatchTitles ==
  {Upserts[k].title : k \in {j \in DOMAIN Upserts : "title" \in DOMAIN Upserts[j]}} \ {""}

ChosenTitle(s) ==
  IF PatchTitles # {} THEN CHOOSE t \in PatchTitles : TRUE
  ELSE IF s.uploaded # <<>> /\ s.uploaded[1].name # "" THEN s.uploaded[1].name
  ELSE "New chat"

NoTitlePatched == \A k \in DOMAIN Upserts : "title" \notin DOMAIN Upserts[k]

C20_Title ==
  /\ (Upserted /\ OneAdded) => chatSessions[1].title = ChosenTitle(chatSessions[1])
  /\ (Upserted /\ NoTitlePatched) =>
       \A i \in DOMAIN pre.chatSessions : \A j \in DOMAIN chatSessions :
         chatSessions[j].id = pre.chatSessions[i].id =>
           chatSessions[j].title = pre.chatSessions[i].title

\* A session created with a title that is not the name of its first file
\* was patched without a title, with other files, and kept its title.
C20_Witness ==
  /\ Upserted /\ NoTitlePatched /\ WasActive
  /\ SessionOf(pre.chatSessions, pre.activeChatId).title = "Notes"
  /\ SessionOf(chatSessions, pre.activeChatId).title = "Notes"
  /\ SessionOf(chatSessions, pre.activeChatId).uploaded = <<FileNameless>>
  /\ SessionOf(pre.chatSessions, pre.activeChatId).uploaded = <<FileB>>

(***************************************************************************)
(* C21.  The history of a chat request is taken from the transcript as it  *)
(* stood before the user's message was appended: its messages that are not *)
(* pending, in their order, cut to the last 12.  It holds no pending       *)
(* message and at most 12 entries.                                         *)
(***************************************************************************)
ChatInFlight == genCall.active /\ genCall.kind = "chat"

\* The positions of the messages of a transcript that are not pending.
Settled(msgs) == {i \in DOMAIN msgs : ~msgs[i].loading}

\* The k-th settled position of a transcript, counted from its end (k >= 1).
RECURSIVE SettledFromEnd(_, _)
SettledFromEnd(S, k) ==
  LET top == CHOOSE i \in S : \A j \in S : j <= i
  IN IF k = 1 THEN top ELSE SettledFromEnd(S \ {top}, k - 1)

EntryOf(m) ==
  [role |-> m.role, content |-> SelectSeq(<<m.title, m.meta, m.text>>, LAMBDA x : x \notin {Null, ""})]

C21_History ==
  ChatInFlight =>
    LET before == genCall.cl.messages
        h == genCall.history
    IN /\ Len(h) <= 12
       /\ Len(h) = Min(12, Cardinality(Settled(before)))
       /\ \A i \in DOMAIN h :
            h[i] = EntryOf(before[SettledFromEnd(Settled(before), Len(h) - i + 1)])
       /\ \A i \in DOMAIN h : \A j \in DOMAIN before :
            before[j].loading => h[i] # EntryOf(before[j])

\* A transcript with more than 12 settled messages and a pending one among
\* its last 12 was cut to 12 entries.
C21_Witness ==
  /\ ChatInFlight
  /\ Cardinality(Settled(genCall.cl.messages)) > 12
  /\ \E j \in DOMAIN genCall.cl.messages :
       genCall.cl.messages[j].loading /\ j > Len(genCall.cl.messages) - 12
  /\ Len(genCall.history) = 12

(***************************************************************************)
(* C22.  When the user opens a thread of the ledger while an upload made   *)
(* from the upload view is in flight, the completion of that upload leaves *)
(* the title, the messages, the uploaded files and the backend session id  *)
(* of the opened thread as they were, and adds a session of its own.       *)
(***************************************************************************)
OpenedDuringUpload ==
  /\ OpenedPresent
  /\ uploadCall.active /\ uploadCall.cl.view = "upload"

OpenedThreadKept ==
  /\ \E j \in DOMAIN chatSessions' :
       /\ chatSessions'[j].id = last.id
       /\ chatSessions'[j].title = SessionOf(chatSessions, last.id).title
       /\ chatSessions'[j].messages = SessionOf(chatSessions, last.id).messages
       /\ chatSessions'[j].uploaded = SessionOf(chatSessions, last.id).uploaded
       /\ chatSessions'[j].backendSessionId = SessionOf(chatSessions, last.id).backendSessionId
  /\ Len(chatSessions') = Len(chatSessions) + 1

C22_OpenedThreadKept ==
  [][(OpenedDuringUpload /\ last'.op = "uploadDone") => OpenedThreadKept]_vars

(***************************************************************************)
(* C23.  The completion of a generate or chat request, with an answer or   *)
(* an error, changes only the session that was active when the request was *)
(* issued (the one that holds the request's pending message): it adds no   *)
(* session and leaves every field of every other session as it was.        *)
(***************************************************************************)
HoldsPending(s, id) == \E k \in DOMAIN s.messages : s.messages[k].id = id

C23_OnlyIssuingSession ==
  last.op = "genDone" =>
    /\ Len(chatSessions) = Len(pre.chatSessions)
    /\ \A i \in DOMAIN pre.chatSessions :
         ~HoldsPending(pre.chatSessions[i], last.call.aiLoadingId) =>
           (i \in DOMAIN chatSessions /\ chatSessions[i] = pre.chatSessions[i])

(***************************************************************************)
(* C24.  Every assistant message a session of the ledger stores with       *)
(* loading = TRUE is eventually stored without it: once the request of the *)
(* message has completed, no session holds the message as pending, also    *)
(* when the user opened another thread or started a new chat meanwhile.    *)
(***************************************************************************)
StoredPending(id) ==
  \E i \in DOMAIN chatSessions : \E k \in DOMAIN chatSessions[i].messages :
    chatSessions[i].messages[k].id = id /\ chatSessions[i].messages[k].loading

MessageIds == {randomUUID(n) : n \in 1..(MaxUuid + 1)}

C24_PendingResolved ==
  \A id \in MessageIds : StoredPending(id) ~> ~StoredPending(id)

(***************************************************************************)
(* C25.  At most one generate or chat request is in flight: the generating *)
(* flag is set exactly while a request is in flight; a call of             *)
(* onSelectOutput or onSendChat made while the flag is set starts no       *)
(* request and appends no message; a request starts only when none is in   *)
(* flight; and the completion of the request, with an answer or an error,  *)
(* clears the flag.                                                        *)
(***************************************************************************)
C25_OneRequest ==
  [][/\ generating' <=> genCall'.active
     /\ (generating /\ last'.op \in {"onSelectOutput", "onSendChat"}) =>
          (genCall' = genCall /\ messages' = messages /\ chatSessions' = chatSessions)
     /\ (genCall'.active /\ genCall' # genCall) => (~genCall.active /\ ~generating)
     /\ last'.op = "genDone" => (~generating' /\ ~genCall'.active)]_vars

\* onSendChat was called with a text while a request was in flight.
C25_Witness ==
  /\ last.op = "onSendChat"
  /\ "generating" \in DOMAIN pre /\ pre.generating /\ pre.chatInput = "hi"
  /\ pre.sessionId # Null
  /\ genCall.active

(***************************************************************************)
(* C26.  In the chat view the files added locally and not yet uploaded are *)
(* uploaded without further action of the user, also a file added while   *)
(* an upload is in flight: whenever the pending-upload count is positive   *)
(* in the chat view it is eventually 0.                                    *)
(***************************************************************************)
PendingInChat == view = "chat" /\ pendingUploadCount(files, uploaded) > 0

C26_PendingDrains == PendingInChat ~> (pendingUploadCount(files, uploaded) = 0)

(***************************************************************************)
(* C27.  Whenever a session is active and no upload, generate or chat      *)
(* request is in flight, the messages shown in the view are the messages   *)
(* the ledger stores for the active session.                               *)
(***************************************************************************)
Quiet == ~uploadCall.active /\ ~genCall.active

C27_MessagesInSync ==
  (activeChatId # Null /\ Quiet) =>
    /\ activeChatId \in IdsOf(chatSessions)
    /\ messages = SessionOf(chatSessions, activeChatId).messages

(***************************************************************************)
(* C28.  Whenever a session is active and no request is in flight, the     *)
(* output selected in the view is the selectedOutput the ledger stores for *)
(* the active session, so that reopening the thread shows the same output. *)
(***************************************************************************)
C28_OutputInSync ==
  (activeChatId \in IdsOf(chatSessions) /\ Quiet) =>
    selectedOutput = SessionOf(chatSessions, activeChatId).selectedOutput

(***************************************************************************)
(* C29.  Files added locally while one thread is active are not carried to *)
(* another thread: when the user adds files under a thread and then opens  *)
(* a different thread of the ledger, the local file list holds none of the *)
(* added files afterwards, and no upload that starts then sends them.      *)
(***************************************************************************)
AddedUnderThread == last.op = "addFiles" /\ last.added # <<>> /\ activeChatId # Null

SwitchesThread ==
  /\ last'.op = "openChatThread"
  /\ last'.id \in IdsOf(chatSessions)
  /\ last'.id # activeChatId

NotCarried(fs) == \A i \in DOMAIN fs : \A j \in DOMAIN last.added : fs[i] # last.added[j]

C29_FilesStayBehind ==
  [][(AddedUnderThread /\ SwitchesThread) =>
       /\ NotCarried(files')
       /\ (uploadCall'.active /\ uploadCall' # uploadCall) => NotCarried(uploadCall'.cl.files)]_vars

(***************************************************************************)
(* C30.  A failed upload creates no session and leaves the ledger, the     *)
(* active pointer, the view mode, the uploaded files and the backend       *)
(* session id as they were; it resets uploading to FALSE and starts no     *)
(* upload, nor does the release of the lock after it.  At most one upload  *)
(* is in flight: uploading is set exactly while one is, and an upload      *)
(* starts only when none is in flight or the one in flight has just ended. *)
(***************************************************************************)
UploadStarts == uploadCall'.active /\ uploadCall' # uploadCall

C30_FailedUpload ==
  [][/\ last'.op = "uploadFail" =>
          /\ chatSessions' = chatSessions /\ activeChatId' = activeChatId
          /\ view' = view /\ uploaded' = uploaded /\ sessionId' = sessionId
          /\ ~uploading' /\ ~uploadCall'.active
     /\ last'.op = "lockTimer" => ~UploadStarts
     /\ uploading' <=> uploadCall'.active
     /\ (UploadStarts /\ last'.op # "uploadDone") => (~uploadCall.active /\ ~uploading)]_vars

\* An upload made from the chat view of a thread failed: the files are still
\* pending and no upload is in flight.
C30_Witness ==
  /\ last.op = "uploadFail" /\ last.cl.view = "chat"
  /\ activeChatId \in IdsOf(chatSessions)
  /\ pendingUploadCount(files, uploaded) > 0
  /\ ~uploading /\ ~uploadCall.active

====
